---- MODULE Spec2Model ----
(***************************************************************************)
(* A model of the pebble-backed datastore of src/datastore.go: the range   *)
(* bounds computed for a prefix scan, the Query planner and its streamer   *)
(* goroutine, the consumer of a result stream, and Close.                  *)
(*                                                                         *)
(* Byte strings are sequences of integers in 0..255.  A nil or empty       *)
(* UpperBound means "no upper bound", as it does for pebble.IterOptions.   *)
(***************************************************************************)
EXTENDS Integers, Sequences, FiniteSets, TLC

(* ------------------------------ bounds -------------------------------- *)

\* number of Query calls and of Close calls that run concurrently
NQ == 1
NC == 2
\* capacity of the result channel a streamer writes to
ChanCap == 1
\* largest offset and limit of a query descriptor
MaxOffset == 1
MaxLimit == 1
\* longest prefix and longest key drawn for the range-bound computation
MaxPrefixLen == 2
MaxKeyLen == 3
\* longest order list of a query descriptor
MaxOrders == 3
\* largest number of operations put into one Batch
MaxBatch == 3

(* ------------------------- program constants -------------------------- *)

\* the byte that cannot be incremented (0xff)
MaxByte == 255
\* the path separator '/'
Slash == 47

\* the Query calls that run concurrently with Close; the pair of Query calls
\* whose results are compared with each other; all Query calls; the Close calls
Concurrent == 1..NQ
Pair == {1, 2}
Queries == Concurrent \cup Pair
Closers == 1..NC

(* ---------------------------- byte strings ---------------------------- *)

\* the bytes the bounded byte strings are drawn from
ByteVals == {0, 1, 254, MaxByte}

RECURSIVE BytesUpTo(_)
BytesUpTo(n) ==
    IF n = 0 THEN {<<>>}
    ELSE LET shorter == BytesUpTo(n - 1)
         IN  shorter \cup {Append(s, b) : s \in {t \in shorter : Len(t) = n - 1}, b \in ByteVals}

\* bytes.Compare(a, b) < 0
RECURSIVE LexLess(_, _)
LexLess(a, b) ==
    IF b = <<>> THEN FALSE
    ELSE IF a = <<>> THEN TRUE
    ELSE IF Head(a) # Head(b) THEN Head(a) < Head(b)
    ELSE LexLess(Tail(a), Tail(b))

LexLeq(a, b) == a = b \/ LexLess(a, b)

\* bytes.HasPrefix(k, p)
HasPrefix(k, p) == Len(p) <= Len(k) /\ SubSeq(k, 1, Len(p)) = p

\* a plausible slip: the last byte is incremented whatever its value
LastIncrementableNoSkip(p, i) == i

\* the index of the last byte of p that is not 0xff, 0 if there is none:
\* the loop "for i := len(prefix) - 1; i >= 0; i--" with its "continue"
RECURSIVE LastIncrementable(_, _)
LastIncrementable(p, i) ==
    IF i = 0 THEN 0
    ELSE IF p[i] = MaxByte THEN LastIncrementable(p, i - 1)
    ELSE i

\* a plausible slip: the byte is incremented but the prefix is not truncated
UpperBoundNoTruncate(p) ==
    LET i == LastIncrementable(p, Len(p))
    IN  IF i = 0 THEN <<>>
        ELSE [j \in 1..Len(p) |-> IF j = i THEN (p[j] + 1) % 256 ELSE p[j]]

\* the UpperBound closure of Query; <<>> stands for nil (no upper bound)
UpperBound(p) ==
    LET i == LastIncrementable(p, Len(p))
    IN  IF i = 0 THEN <<>>
        ELSE [j \in 1..i |-> IF j = i THEN (p[j] + 1) % 256 ELSE p[j]]

\* LowerBound: []byte(prefix)
LowerBound(p) == p

\* the keys a cursor with bounds [lower, upper) visits
InRange(k, lower, upper) ==
    /\ LexLeq(lower, k)
    /\ (upper = <<>> \/ LexLess(k, upper))

(* ------------------------------ the data ------------------------------ *)

\* keys "/a/1", "/a/2", "/a/3", "/ab/1", "/b/1" and values "x", "y", "z", "xy"
KeyA1 == <<47, 97, 47, 49>>
KeyA2 == <<47, 97, 47, 50>>
KeyA3 == <<47, 97, 47, 51>>
KeyAB1 == <<47, 97, 98, 47, 49>>
KeyB1 == <<47, 98, 47, 49>>

\* a store is a set of key/value pairs with distinct keys
StoreExample ==
    {[key |-> KeyA1, value |-> <<120>>], [key |-> KeyA2, value |-> <<121>>],
     [key |-> KeyB1, value |-> <<122>>]}
StoreMixed ==
    {[key |-> KeyA1, value |-> <<>>], [key |-> KeyA2, value |-> <<120, 121>>],
     [key |-> KeyA3, value |-> <<122>>], [key |-> KeyAB1, value |-> <<120>>]}
Stores == {StoreExample, StoreMixed}
\* the store the concurrent queries scan: two keys under "/a/", none under "/b/"
StorePair ==
    {[key |-> KeyA1, value |-> <<120>>], [key |-> KeyA2, value |-> <<121>>]}

\* the keys of a set, in ascending byte order (the order of the engine)
RECURSIVE SortedKeys(_)
SortedKeys(ks) ==
    IF ks = {} THEN <<>>
    ELSE LET m == CHOOSE k \in ks : \A o \in ks : LexLeq(k, o)
         IN  <<m>> \o SortedKeys(ks \ {m})

ValueOf(st, k) == (CHOOSE r \in st : r.key = k).value

(* ------------------------- the query descriptor ----------------------- *)

\* path.Clean on a slash-separated path that starts with '/': repeated
\* separators collapse and a trailing separator is dropped
RECURSIVE PathClean(_)
PathClean(s) ==
    IF Len(s) <= 1 THEN s
    ELSE IF s[Len(s)] = Slash THEN PathClean(SubSeq(s, 1, Len(s) - 1))
    ELSE IF s[1] = Slash /\ s[2] = Slash THEN PathClean(Tail(s))
    ELSE <<Head(s)>> \o PathClean(Tail(s))

\* ds.NewKey(s).String()
NewKey(s) ==
    IF s = <<>> THEN <<Slash>>
    ELSE IF s[1] = Slash THEN PathClean(s)
    ELSE PathClean(<<Slash>> \o s)

\* the scan prefix of Query: the cleaned key, with a separator appended
\* unless it is the root
ScanPrefix(raw) ==
    LET prefix == NewKey(raw)
    IN  IF prefix # <<Slash>> THEN Append(prefix, Slash) ELSE prefix

\* the two filters queries are given: query.FilterKeyCompare{GreaterThan, "/a/1"}
\* and a filter on the value being non-empty
FilterKeyAfterA1 == "keyAfterA1"
FilterHasValue == "hasValue"

\* f.Filter(entry)
FilterAccepts(f, e) ==
    IF f = FilterKeyAfterA1 THEN LexLess(KeyA1, e.key)
    ELSE Len(e.value) > 0

\* filterFn: the entry passes every filter of the list
FilterFn(filters, e) == \A i \in 1..Len(filters) : FilterAccepts(filters[i], e)

\* createEntry: the key, the value unless keysOnly, the size if returnSizes
CreateEntry(d, st, k) ==
    [key |-> k,
     value |-> IF d.keysOnly THEN <<>> ELSE ValueOf(st, k),
     size |-> IF d.returnSizes THEN Len(ValueOf(st, k)) ELSE 0]

\* a plausible slip: a skipped entry counts whether or not it passes the filters
CountsTowardsAll(d, e) == TRUE

\* "doFilter && !filterFn(e)" negated: the entry counts towards offset and limit
CountsTowards(d, e) == ~(Len(d.filters) > 0) \/ FilterFn(d.filters, e)

OrderAsc == "ByKeyAscending"
OrderDesc == "ByKeyDescending"
KeyOrders == {OrderAsc, OrderDesc}

\* a plausible slip: an empty order list positions the cursor like a descending one
PlanEmptyLast(orders) ==
    IF Len(orders) = 0 THEN "desc"
    ELSE IF Len(orders) = 1 THEN (IF orders[1] = OrderAsc THEN "asc" ELSE "desc")
    ELSE "error"

\* a plausible slip: only a key order in first position makes a longer list
\* incompatible
PlanFirstOnly(orders) ==
    IF Len(orders) = 0 THEN "asc"
    ELSE IF Len(orders) = 1
    THEN (IF orders[1] = OrderAsc THEN "asc"
          ELSE IF orders[1] = OrderDesc THEN "desc"
          ELSE "fallback")
    ELSE IF orders[1] \in KeyOrders THEN "error"
    ELSE "fallback"

\* the switch on len(orders): "asc" is iter.First with move = iter.Next,
\* "desc" is iter.Last with move = iter.Prev, "fallback" is
\* inefficientOrderQuery, "error" is the incompatible-orders error
Plan(orders) ==
    IF Len(orders) = 0 THEN "asc"
    ELSE IF Len(orders) = 1
    THEN (IF orders[1] = OrderAsc THEN "asc"
          ELSE IF orders[1] = OrderDesc THEN "desc"
          ELSE "fallback")
    ELSE IF \E i \in 1..(Len(orders) - 1) : orders[i] \in KeyOrders THEN "error"
    ELSE "fallback"

(* ------------------------- fallback evaluation ------------------------ *)

\* an order that is not a key order: query.OrderByValue
OrderValue == "ByValue"
AllOrders == {OrderAsc, OrderDesc, OrderValue}

\* the index of the first key order of a list, 0 when it has none
RECURSIVE FirstKeyOrder(_, _)
FirstKeyOrder(orders, i) ==
    IF i > Len(orders) THEN 0
    ELSE IF orders[i] \in KeyOrders THEN i
    ELSE FirstKeyOrder(orders, i + 1)

\* the base order handed to inefficientOrderQuery: nil for a single order
\* that is not a key order, else the key order the loop over the list found
BaseOrder(orders) ==
    IF Len(orders) = 1 \/ FirstKeyOrder(orders, 1) = 0 THEN "nil"
    ELSE orders[FirstKeyOrder(orders, 1)]

\* a plausible slip: the base query keeps the offset of the query asked
BaseQueryKeepOffset(d, baseOrder) ==
    [d EXCEPT !.limit = 0,
              !.orders = IF baseOrder = "nil" THEN <<>> ELSE <<baseOrder>>]

\* the query run natively: that asked without limit and offset, ordered by
\* the base order only
BaseQuery(d, baseOrder) ==
    [d EXCEPT !.limit = 0, !.offset = 0,
              !.orders = IF baseOrder = "nil" THEN <<>> ELSE <<baseOrder>>]

\* the query applied to the native results: that asked without prefix and
\* filters
NaiveQuery(d) == [d EXCEPT !.prefix = <<>>, !.filters = <<>>]

\* Order.Compare: -1, 0 or 1
Compare(o, a, b) ==
    LET x == IF o = OrderValue THEN a.value ELSE IF o = OrderAsc THEN a.key ELSE b.key
        y == IF o = OrderValue THEN b.value ELSE IF o = OrderAsc THEN b.key ELSE a.key
    IN  IF x = y THEN 0 ELSE IF LexLess(x, y) THEN -1 ELSE 1

\* query.Less: the first order that tells the entries apart decides, the
\* ascending key decides between entries no order tells apart
RECURSIVE Less(_, _, _, _)
Less(orders, i, a, b) ==
    IF i > Len(orders) THEN LexLess(a.key, b.key)
    ELSE IF Compare(orders[i], a, b) = 0 THEN Less(orders, i + 1, a, b)
    ELSE Compare(orders[i], a, b) = -1

\* query.NaiveOrder: the entries sorted by Less
RECURSIVE NaiveOrder(_, _)
NaiveOrder(orders, entries) ==
    IF Len(orders) = 0 \/ Len(entries) = 0 THEN entries
    ELSE LET m == CHOOSE i \in 1..Len(entries) :
                      \A j \in 1..Len(entries) :
                          j = i \/ Less(orders, 1, entries[i], entries[j])
             rest == [j \in 1..(Len(entries) - 1) |->
                          IF j < m THEN entries[j] ELSE entries[j + 1]]
         IN  <<entries[m]>> \o NaiveOrder(orders, rest)

\* query.NaiveQueryApply: prefix, filters, orders, offset, limit in turn
NaiveQueryApply(nq, entries) ==
    LET inPrefix == IF nq.prefix = <<>> THEN entries
                    ELSE SelectSeq(entries, LAMBDA e : HasPrefix(e.key, ScanPrefix(nq.prefix)))
        filtered == SelectSeq(inPrefix, LAMBDA e : FilterFn(nq.filters, e))
        ordered == NaiveOrder(nq.orders, filtered)
        rest == SubSeq(ordered, (IF nq.offset > Len(ordered) THEN Len(ordered) ELSE nq.offset) + 1,
                       Len(ordered))
    IN  IF nq.limit > 0 /\ nq.limit < Len(rest) THEN SubSeq(rest, 1, nq.limit) ELSE rest

(* ------------------------------ the state ----------------------------- *)

VARIABLES
    store,        \* the contents of the engine: a set of key/value pairs
    dbClosed,     \* db.Close has been called on the engine handle
    flushes,      \* number of db.Flush calls
    dbCloses,     \* number of db.Close calls
    status,       \* Datastore.status: 0 open, 1 closing or closed
    closing,      \* the closing channel has been closed
    broadcasts,   \* number of close(d.closing) calls
    wg,           \* the counter of Datastore.wg
    qPc,          \* where each Query call is
    desc,         \* the descriptor each Query call was given
    iter,         \* the cursor of each Query call
    sPc,          \* where each streamer goroutine is
    skipped,      \* the "skipped" counter of each streamer
    sent,         \* the "sent" counter of each streamer
    out,          \* every event written to outCh by each streamer, in order
    recvd,        \* how many of those events the consumer has received
    cancel,       \* the consumer closed the results (proc.Closing)
    term,         \* how each streamer left its loops: "natural" or "interrupted"
    cPc,          \* where each Close call is
    cOrig,        \* the Close call won the compare-and-swap
    cRes,         \* what each Close call returned
    bPc,          \* range-bound computation: "input" or "computed"
    bPrefix,      \* its prefix
    bKey,         \* the key tested against the bounds
    bLower,       \* its LowerBound
    bUpper,       \* its UpperBound
    fb,           \* inefficientOrderQuery of each Query call: the query asked,
                  \* the cursor of the outer call, the result once applied
    fault,        \* the engine error each cursor meets, and at which position
    batch         \* the Batch: its state, the engine batch, the calls made on it

engineVars == <<store, dbClosed, flushes, dbCloses>>
closeVars == <<status, closing, broadcasts, cPc, cOrig, cRes>>
queryVars == <<qPc, desc, iter>>
streamVars == <<sPc, skipped, sent, out, term>>
consumerVars == <<recvd, cancel>>
boundVars == <<bPc, bPrefix, bKey, bLower, bUpper>>
vars == <<engineVars, closeVars, wg, queryVars, streamVars, consumerVars, boundVars,
          fb, fault, batch>>

NoDesc == [prefix |-> <<>>, orders |-> <<>>, filters |-> <<>>, offset |-> 0,
           limit |-> 0, keysOnly |-> FALSE, returnSizes |-> FALSE]
NoIter == [open |-> FALSE, keys |-> <<>>, pos |-> 0, closes |-> 0]
NoFallback == [asked |-> NoDesc, outer |-> NoIter, state |-> "none", result |-> <<>>]
NoFault == [kind |-> "none", pos |-> 0, met |-> FALSE]
NoBatch == [state |-> "none", ops |-> <<>>, calls |-> <<>>]

\* NewDatastore: an open handle, no query, no Close call
InitDatastore ==
    /\ dbClosed = FALSE /\ flushes = 0 /\ dbCloses = 0
    /\ status = 0 /\ closing = FALSE /\ broadcasts = 0
    /\ wg = 0
    /\ qPc = [q \in Queries |-> "idle"]
    /\ desc = [q \in Queries |-> NoDesc]
    /\ iter = [q \in Queries |-> NoIter]
    /\ sPc = [q \in Queries |-> "none"]
    /\ skipped = [q \in Queries |-> 0]
    /\ sent = [q \in Queries |-> 0]
    /\ out = [q \in Queries |-> <<>>]
    /\ recvd = [q \in Queries |-> 0]
    /\ cancel = [q \in Queries |-> FALSE]
    /\ term = [q \in Queries |-> "none"]
    /\ cPc = [c \in Closers |-> "idle"]
    /\ cOrig = [c \in Closers |-> FALSE]
    /\ cRes = [c \in Closers |-> "none"]
    /\ fb = [q \in Queries |-> NoFallback]

\* no engine error and no Batch
Healthy ==
    /\ fault = [q \in Queries |-> NoFault]
    /\ batch = NoBatch

NoBounds ==
    /\ bPc = "computed" /\ bPrefix = <<>> /\ bKey = <<>>
    /\ bLower = <<>> /\ bUpper = <<>>
    /\ Healthy

(* ------------------------------ the cursor ---------------------------- *)

\* db.NewIterWithContext: a cursor over the keys within [lower, upper)
NewIter(st, raw) ==
    LET lower == LowerBound(ScanPrefix(raw))
        upper == UpperBound(ScanPrefix(raw))
    IN  [open |-> TRUE,
         keys |-> SortedKeys({r.key : r \in {x \in st : InRange(x.key, lower, upper)}}),
         pos |-> 0,
         closes |-> 0]

\* iter.Valid
Valid(it) == it.pos \in 1..Len(it.keys)

\* iter.First for an ascending plan, iter.Last for a descending one
Position(it, plan) ==
    [it EXCEPT !.pos = IF plan = "desc" THEN Len(it.keys) ELSE 1]

\* a plausible slip: every plan moves with iter.Next
MoveAlwaysNext(it, plan) == [it EXCEPT !.pos = it.pos + 1]

\* move(): iter.Next for an ascending plan, iter.Prev for a descending one
Move(it, plan) ==
    [it EXCEPT !.pos = IF plan = "desc" THEN it.pos - 1 ELSE it.pos + 1]

\* a plausible slip: the release leaves the cursor as it is
IterCloseKeepsOpen(it) == it

\* iter.Close
IterClose(it) == [it EXCEPT !.open = FALSE, !.closes = it.closes + 1]

\* the entry under the cursor of query q
Current(q) == CreateEntry(desc[q], store, iter[q].keys[iter[q].pos])

\* the engine errors a cursor can meet at position f.pos: "value", the read
\* of the value fails (iter.ValueAndErr); "cursorValid", iter.Error is set
\* while iter.Valid still holds; "cursorInvalid", iter.Error is set and
\* iter.Valid no longer holds
FaultKinds == {"value", "cursorValid", "cursorInvalid"}

\* iter.Valid of a cursor that may meet the error f
ValidAt(it, f) == Valid(it) /\ ~(f.kind = "cursorInvalid" /\ it.pos = f.pos)

\* iter.Error() != nil
IterError(q) == fault[q].kind = "cursorValid" /\ iter[q].pos = fault[q].pos

\* createEntry returns an error: a value is read and its read fails
CreateEntryFails(q) ==
    /\ fault[q].kind = "value" /\ iter[q].pos = fault[q].pos
    /\ ~desc[q].keysOnly \/ desc[q].returnSizes

\* the streamer of q meets the engine error: its cursor is at the position
\* of the error and the turn of the loop reads what fails
AtFault(q) ==
    /\ Valid(iter[q]) /\ iter[q].pos = fault[q].pos
    /\ IF fault[q].kind = "value" THEN CreateEntryFails(q) ELSE fault[q].kind # "none"

(* ------------------------------- Query -------------------------------- *)

\* Query up to the point where the streamer is about to be registered:
\* the cursor is created and positioned; incompatible orders return an
\* error (before any "defer iter.Close()"), an invalid cursor is closed and
\* an empty result returned.  The engine handle must not be used once it is
\* closed, so no Query starts then.  Order lists that lead to
\* inefficientOrderQuery are not drawn.
QueryOpen(q, d) ==
    /\ qPc[q] = "idle"
    /\ ~dbClosed
    /\ LET it == NewIter(store, d.prefix)
           plan == Plan(d.orders)
           \* the query that runs natively, and its cursor
           nd == IF plan = "fallback" THEN BaseQuery(d, BaseOrder(d.orders)) ELSE d
           nit == Position(NewIter(store, nd.prefix), Plan(nd.orders))
       IN  /\ desc' = [desc EXCEPT ![q] = nd]
           /\ fb' = [fb EXCEPT ![q] =
                       [asked |-> d,
                        outer |-> IF plan = "fallback" THEN it ELSE NoIter,
                        state |-> IF plan = "fallback" THEN "pending" ELSE "none",
                        result |-> <<>>]]
           /\ IF plan = "error"
              THEN /\ iter' = [iter EXCEPT ![q] = it]
                   /\ qPc' = [qPc EXCEPT ![q] = "error"]
              ELSE IF ~ValidAt(nit, fault[q])
              THEN /\ iter' = [iter EXCEPT ![q] = IterClose(nit)]
                   /\ qPc' = [qPc EXCEPT ![q] = "empty"]
              ELSE /\ iter' = [iter EXCEPT ![q] = nit]
                   /\ qPc' = [qPc EXCEPT ![q] = "opened"]
    /\ UNCHANGED <<engineVars, closeVars, wg, streamVars, consumerVars, boundVars, fault, batch>>

\* d.wg.Add(1) and query.ResultsWithProcess: the streamer goroutine is
\* registered and started, the results are returned to the caller
QueryRegister(q) ==
    /\ qPc[q] = "opened"
    /\ wg' = wg + 1
    /\ qPc' = [qPc EXCEPT ![q] = "streaming"]
    /\ sPc' = [sPc EXCEPT ![q] = "skip"]
    /\ UNCHANGED <<engineVars, closeVars, desc, iter, skipped, sent, out, term,
                   consumerVars, boundVars, fb, fault, batch>>

\* inefficientOrderQuery once the native results are read to their end:
\* query.NaiveQueryApply orders them, drops the offset and keeps the limit;
\* the call that opened the outer cursor returns and its deferred
\* iter.Close runs
FallbackApply(q) ==
    /\ fb[q].state = "pending"
    /\ \/ qPc[q] = "empty"
       \/ sPc[q] = "done" /\ recvd[q] = Len(out[q])
    /\ LET events == SelectSeq(out[q], LAMBDA r : r.type = "entry")
           entries == [i \in 1..Len(events) |-> events[i].entry]
       IN  fb' = [fb EXCEPT ![q].state = "applied",
                            ![q].outer = IterClose(fb[q].outer),
                            ![q].result = NaiveQueryApply(NaiveQuery(fb[q].asked), entries)]
    /\ UNCHANGED <<engineVars, closeVars, wg, queryVars, streamVars, consumerVars,
                   boundVars, fault, batch>>

(* ------------------------------ streamer ------------------------------ *)

\* one turn of the loop that skips over "offset" entries: the loop test and
\* the test of iter.Error ("skip"), then the body behind it ("skipbody")
StreamerSkip(q) ==
    /\ sPc[q] \in {"skip", "skipbody"}
    /\ IF sPc[q] = "skipbody" \/ (skipped[q] < desc[q].offset /\ ValidAt(iter[q], fault[q]))
       THEN IF sPc[q] = "skip" /\ IterError(q)
            THEN /\ sPc' = [sPc EXCEPT ![q] = "skiperr"]
                 /\ UNCHANGED <<skipped, iter>>
            ELSE /\ skipped' = [skipped EXCEPT ![q] =
                                  IF ~CreateEntryFails(q) /\ CountsTowards(desc[q], Current(q))
                                  THEN @ + 1 ELSE @]
                 /\ iter' = [iter EXCEPT ![q] = Move(@, Plan(desc[q].orders))]
                 /\ sPc' = [sPc EXCEPT ![q] = "skip"]
       ELSE /\ sPc' = [sPc EXCEPT ![q] = "emit"]
            /\ UNCHANGED <<skipped, iter>>
    /\ fault' = [fault EXCEPT ![q].met = @ \/ (skipped[q] < desc[q].offset /\ AtFault(q))]
    /\ UNCHANGED <<engineVars, closeVars, wg, qPc, desc, sent, out, term,
                   consumerVars, boundVars, fb, batch>>

\* one turn of the loop that sends results, up to its call of
\* sendOrInterrupt: the loop test and the test of iter.Error ("emit"), then
\* the body behind it ("emitbody"); when the loop ends the streamer returns
\* normally
StreamerEmit(q) ==
    /\ sPc[q] \in {"emit", "emitbody"}
    /\ IF \/ sPc[q] = "emitbody"
          \/ /\ desc[q].limit <= 0 \/ sent[q] < desc[q].limit
             /\ ValidAt(iter[q], fault[q])
       THEN IF sPc[q] = "emit" /\ IterError(q)
            THEN /\ sPc' = [sPc EXCEPT ![q] = "emiterr"]
                 /\ UNCHANGED <<iter, term>>
            ELSE IF ~CreateEntryFails(q) /\ CountsTowards(desc[q], Current(q))
            THEN /\ sPc' = [sPc EXCEPT ![q] = "send"]
                 /\ UNCHANGED <<iter, term>>
            ELSE /\ iter' = [iter EXCEPT ![q] = Move(@, Plan(desc[q].orders))]
                 /\ sPc' = [sPc EXCEPT ![q] = "emit"]
                 /\ UNCHANGED term
       ELSE /\ sPc' = [sPc EXCEPT ![q] = "exit"]
            /\ term' = [term EXCEPT ![q] = "natural"]
            /\ UNCHANGED iter
    /\ fault' = [fault EXCEPT ![q].met =
                     @ \/ ((desc[q].limit <= 0 \/ sent[q] < desc[q].limit) /\ AtFault(q))]
    /\ UNCHANGED <<engineVars, closeVars, wg, qPc, desc, skipped, sent, out,
                   consumerVars, boundVars, fb, batch>>

\* outCh can take one more event
HasRoom(q) == Len(out[q]) - recvd[q] < ChanCap

\* a plausible slip: the select does not listen to d.closing
InterruptReadyCancelOnly(q) == cancel[q]

\* a plausible slip: the select does not listen to the consumer's cancellation
InterruptReadyClosingOnly(q) == closing

\* the select of sendOrInterrupt can take one of its interrupting cases:
\* d.closing is closed, or the consumer closed the results
InterruptReady(q) == closing \/ cancel[q]

\* sendOrInterrupt, case "outCh <- r": the entry is sent, then sent++ and move()
StreamerSend(q) ==
    /\ sPc[q] = "send"
    /\ HasRoom(q)
    /\ out' = [out EXCEPT ![q] = Append(@, [type |-> "entry", entry |-> Current(q)])]
    /\ sent' = [sent EXCEPT ![q] = @ + 1]
    /\ iter' = [iter EXCEPT ![q] = Move(@, Plan(desc[q].orders))]
    /\ sPc' = [sPc EXCEPT ![q] = "emit"]
    /\ UNCHANGED <<engineVars, closeVars, wg, qPc, desc, skipped, term,
                   consumerVars, boundVars, fb, fault, batch>>

\* sendOrInterrupt(query.Result{Error: err}), case "outCh <- r": the error of
\* the cursor is sent and the turn of the loop goes on
StreamerSendError(q) ==
    /\ sPc[q] \in {"skiperr", "emiterr"}
    /\ HasRoom(q)
    /\ out' = [out EXCEPT ![q] = Append(@, [type |-> "error", entry |-> "cursor error"])]
    /\ sPc' = [sPc EXCEPT ![q] = IF sPc[q] = "skiperr" THEN "skipbody" ELSE "emitbody"]
    /\ UNCHANGED <<engineVars, closeVars, wg, qPc, desc, iter, skipped, sent, term,
                   consumerVars, boundVars, fb, fault, batch>>

\* a plausible slip: the closure error is sent but the loop is not left
StreamerInterruptNoPanic(q) ==
    /\ sPc[q] \in {"send", "skiperr", "emiterr"}
    /\ InterruptReady(q)
    /\ out' = [out EXCEPT ![q] =
                 IF HasRoom(q) THEN Append(@, [type |-> "error", entry |-> "close requested"])
                 ELSE @]
    /\ term' = [term EXCEPT ![q] = "interrupted"]
    /\ sPc' = [sPc EXCEPT ![q] = "emit"]
    /\ iter' = [iter EXCEPT ![q] = Move(@, Plan(desc[q].orders))]
    /\ UNCHANGED <<engineVars, closeVars, wg, qPc, desc, skipped, sent,
                   consumerVars, boundVars, fb, fault, batch>>

\* sendOrInterrupt, the interrupting cases: one non-blocking attempt to send
\* the "close requested" error, then panic(interrupted)
StreamerInterrupt(q) ==
    /\ sPc[q] \in {"send", "skiperr", "emiterr"}
    /\ InterruptReady(q)
    /\ out' = [out EXCEPT ![q] =
                 IF HasRoom(q) THEN Append(@, [type |-> "error", entry |-> "close requested"])
                 ELSE @]
    /\ term' = [term EXCEPT ![q] = "interrupted"]
    /\ sPc' = [sPc EXCEPT ![q] = "exit"]
    /\ UNCHANGED <<engineVars, closeVars, wg, qPc, desc, iter, skipped, sent,
                   consumerVars, boundVars, fb, fault, batch>>

\* the deferred calls of the streamer: recover, iter.Close, d.wg.Done
StreamerExit(q) ==
    /\ sPc[q] = "exit"
    /\ iter' = [iter EXCEPT ![q] = IterClose(@)]
    /\ wg' = wg - 1
    /\ sPc' = [sPc EXCEPT ![q] = "done"]
    /\ UNCHANGED <<engineVars, closeVars, qPc, desc, skipped, sent, out, term,
                   consumerVars, boundVars, fb, fault, batch>>

(* ------------------------------ consumer ------------------------------ *)

\* the consumer receives the next event of the stream
Receive(q) ==
    /\ qPc[q] = "streaming"
    /\ recvd[q] < Len(out[q])
    /\ recvd' = [recvd EXCEPT ![q] = @ + 1]
    /\ UNCHANGED <<engineVars, closeVars, wg, queryVars, streamVars, cancel, boundVars, fb, fault, batch>>

\* the consumer closes the results early: proc.Closing() fires
CancelQuery(q) ==
    /\ qPc[q] = "streaming"
    /\ ~cancel[q]
    /\ cancel' = [cancel EXCEPT ![q] = TRUE]
    /\ UNCHANGED <<engineVars, closeVars, wg, queryVars, streamVars, recvd, boundVars, fb, fault, batch>>

(* -------------------------------- Close ------------------------------- *)

\* a plausible slip: the status is set without being compared
CasAlwaysWins(s) == TRUE

\* atomic.CompareAndSwapInt32(&d.status, 0, 1) succeeds
CasWins(s) == s = 0

\* Close is called: the compare-and-swap on the status
CloseCas(c) ==
    /\ cPc[c] = "idle"
    /\ IF CasWins(status)
       THEN /\ status' = 1
            /\ cOrig' = [cOrig EXCEPT ![c] = TRUE]
            /\ cPc' = [cPc EXCEPT ![c] = "broadcast"]
       ELSE /\ cPc' = [cPc EXCEPT ![c] = "dupwait"]
            /\ UNCHANGED <<status, cOrig>>
    /\ UNCHANGED <<engineVars, closing, broadcasts, cRes, wg, queryVars, streamVars,
                   consumerVars, boundVars, fb, fault, batch>>

\* the duplicate Close: d.wg.Wait() returns, then "return nil"
CloseDupReturn(c) ==
    /\ cPc[c] = "dupwait"
    /\ wg = 0
    /\ cPc' = [cPc EXCEPT ![c] = "returned"]
    /\ cRes' = [cRes EXCEPT ![c] = "ok"]
    /\ UNCHANGED <<engineVars, status, closing, broadcasts, cOrig, wg, queryVars,
                   streamVars, consumerVars, boundVars, fb, fault, batch>>

\* close(d.closing)
CloseBroadcast(c) ==
    /\ cPc[c] = "broadcast"
    /\ closing' = TRUE
    /\ broadcasts' = broadcasts + 1
    /\ cPc' = [cPc EXCEPT ![c] = "wait"]
    /\ UNCHANGED <<engineVars, status, cOrig, cRes, wg, queryVars, streamVars,
                   consumerVars, boundVars, fb, fault, batch>>

\* d.wg.Wait() returns
CloseWait(c) ==
    /\ cPc[c] = "wait"
    /\ wg = 0
    /\ cPc' = [cPc EXCEPT ![c] = "flush"]
    /\ UNCHANGED <<engineVars, status, closing, broadcasts, cOrig, cRes, wg, queryVars,
                   streamVars, consumerVars, boundVars, fb, fault, batch>>

\* d.db.Flush()
CloseFlush(c) ==
    /\ cPc[c] = "flush"
    /\ flushes' = flushes + 1
    /\ cPc' = [cPc EXCEPT ![c] = "dbclose"]
    /\ UNCHANGED <<store, dbClosed, dbCloses, status, closing, broadcasts, cOrig, cRes,
                   wg, queryVars, streamVars, consumerVars, boundVars, fb, fault, batch>>

\* return d.db.Close(): the engine closes without an error
CloseDb(c) ==
    /\ cPc[c] = "dbclose"
    /\ dbClosed' = TRUE
    /\ dbCloses' = dbCloses + 1
    /\ cPc' = [cPc EXCEPT ![c] = "returned"]
    /\ cRes' = [cRes EXCEPT ![c] = "ok"]
    /\ UNCHANGED <<store, flushes, status, closing, broadcasts, cOrig, wg, queryVars,
                   streamVars, consumerVars, boundVars, fb, fault, batch>>

(* ----------------------- range-bound computation ---------------------- *)

\* the IterOptions of Query for a prefix: LowerBound and UpperBound
ComputeBounds ==
    /\ bPc = "input"
    /\ bLower' = LowerBound(bPrefix)
    /\ bUpper' = UpperBound(bPrefix)
    /\ bPc' = "computed"
    /\ UNCHANGED <<engineVars, closeVars, wg, queryVars, streamVars, consumerVars,
                   bPrefix, bKey, fb, fault, batch>>

(* ------------------------------- writes ------------------------------ *)

\* d.get: the value stored under a key, or not found
Get(st, k) ==
    IF \E r \in st : r.key = k
    THEN [found |-> TRUE, value |-> ValueOf(st, k)]
    ELSE [found |-> FALSE, value |-> <<>>]

Has(st, k) == Get(st, k).found

\* the engine's Set and Delete of one key
DbSet(st, k, v) == {r \in st : r.key # k} \cup {[key |-> k, value |-> v]}
DbDelete(st, k) == {r \in st : r.key # k}

\* the engine applies the operations of a batch in the order they were added
RECURSIVE ApplyOps(_, _)
ApplyOps(st, ops) ==
    IF Len(ops) = 0 THEN st
    ELSE ApplyOps(IF Head(ops).op = "set" THEN DbSet(st, Head(ops).key, Head(ops).value)
                  ELSE DbDelete(st, Head(ops).key),
                  Tail(ops))

\* Datastore.Put and Datastore.Delete write to the engine at once
Put(k, v) ==
    /\ ~dbClosed
    /\ store' = DbSet(store, k, v)
    /\ UNCHANGED <<dbClosed, flushes, dbCloses, closeVars, wg, queryVars, streamVars,
                   consumerVars, boundVars, fb, fault, batch>>

Delete(k) ==
    /\ ~dbClosed
    /\ store' = DbDelete(store, k)
    /\ UNCHANGED <<dbClosed, flushes, dbCloses, closeVars, wg, queryVars, streamVars,
                   consumerVars, boundVars, fb, fault, batch>>

\* Datastore.Batch: a new, empty engine batch
NewBatch ==
    /\ ~dbClosed
    /\ batch.state = "none"
    /\ batch' = [state |-> "open", ops |-> <<>>, calls |-> <<>>]
    /\ UNCHANGED <<engineVars, closeVars, wg, queryVars, streamVars, consumerVars,
                   boundVars, fb, fault>>

\* a plausible slip: Batch.Put writes to the engine instead of the batch
BatchPutWritesThrough(k, v) ==
    /\ batch.state = "open"
    /\ Len(batch.calls) < MaxBatch
    /\ store' = DbSet(store, k, v)
    /\ batch' = [batch EXCEPT !.calls = Append(@, [op |-> "put", key |-> k, value |-> v])]
    /\ UNCHANGED <<dbClosed, flushes, dbCloses, closeVars, wg, queryVars, streamVars,
                   consumerVars, boundVars, fb, fault>>

\* Batch.Put: b.batch.Set
BatchPut(k, v) ==
    /\ batch.state = "open"
    /\ Len(batch.calls) < MaxBatch
    /\ batch' = [batch EXCEPT !.ops = Append(@, [op |-> "set", key |-> k, value |-> v]),
                              !.calls = Append(@, [op |-> "put", key |-> k, value |-> v])]
    /\ UNCHANGED <<engineVars, closeVars, wg, queryVars, streamVars, consumerVars,
                   boundVars, fb, fault>>

\* a plausible slip: Batch.Delete writes an empty value instead of deleting
BatchDeleteAsEmptyPut(k) ==
    /\ batch.state = "open"
    /\ Len(batch.calls) < MaxBatch
    /\ batch' = [batch EXCEPT !.ops = Append(@, [op |-> "set", key |-> k, value |-> <<>>]),
                              !.calls = Append(@, [op |-> "delete", key |-> k, value |-> <<>>])]
    /\ UNCHANGED <<engineVars, closeVars, wg, queryVars, streamVars, consumerVars,
                   boundVars, fb, fault>>

\* Batch.Delete: b.batch.Delete
BatchDelete(k) ==
    /\ batch.state = "open"
    /\ Len(batch.calls) < MaxBatch
    /\ batch' = [batch EXCEPT !.ops = Append(@, [op |-> "delete", key |-> k, value |-> <<>>]),
                              !.calls = Append(@, [op |-> "delete", key |-> k, value |-> <<>>])]
    /\ UNCHANGED <<engineVars, closeVars, wg, queryVars, streamVars, consumerVars,
                   boundVars, fb, fault>>

\* Batch.Commit: b.batch.Commit; the engine applies the whole batch, or
\* returns an error and applies nothing
BatchCommit(ok) ==
    /\ ~dbClosed
    /\ batch.state = "open"
    /\ batch' = [batch EXCEPT !.state = IF ok THEN "committed" ELSE "failed"]
    /\ store' = IF ok THEN ApplyOps(store, batch.ops) ELSE store
    /\ UNCHANGED <<dbClosed, flushes, dbCloses, closeVars, wg, queryVars, streamVars,
                   consumerVars, boundVars, fb, fault>>

(* --------------------------- specifications -------------------------- *)

\* the raw prefixes "", "a/" and "/b", the order lists and the filter lists
\* query descriptors are drawn from
Prefixes == {<<>>, <<97, 47>>, <<47, 98>>}
OrderLists == {<<>>, <<OrderAsc>>, <<OrderDesc>>, <<OrderAsc, OrderDesc>>}
FilterLists == {<<>>, <<FilterKeyAfterA1>>, <<FilterHasValue>>}

Descriptors ==
    [prefix : Prefixes, orders : OrderLists, filters : FilterLists,
     offset : 0..MaxOffset, limit : 0..MaxLimit,
     keysOnly : BOOLEAN, returnSizes : BOOLEAN]

\* the descriptors of the queries that run concurrently with Close: a scan
\* of "/a/" with or without an offset, a scan of "/b/" and a scan with
\* incompatible orders
ConcurrentDescriptors ==
    {d \in Descriptors :
        /\ d.limit = 0 /\ d.filters = <<>> /\ ~d.keysOnly /\ ~d.returnSizes
        /\ \/ d.prefix = <<97, 47>> /\ d.orders = <<>> /\ d.offset <= 1
           \/ d.prefix = <<47, 98>> /\ d.orders = <<>> /\ d.offset = 0
           \/ d.prefix = <<97, 47>> /\ d.orders = <<OrderAsc, OrderDesc>> /\ d.offset = 0}

\* the same, and a query that stops at its limit with data left
FairDescriptors ==
    ConcurrentDescriptors \cup
    {d \in Descriptors :
        /\ d.limit = 1 /\ d.filters = <<>> /\ ~d.keysOnly /\ ~d.returnSizes
        /\ d.prefix = <<97, 47>> /\ d.orders = <<>> /\ d.offset = 0}

\* Query calls, their streamers and consumers, and Close calls, interleaved
Init ==
    /\ store = StorePair
    /\ InitDatastore
    /\ NoBounds

Next ==
    \/ \E q \in Concurrent :
          qPc[q] = "idle" /\ \E d \in ConcurrentDescriptors : QueryOpen(q, d)
    \/ \E q \in Concurrent : QueryRegister(q)
    \/ \E q \in Concurrent : StreamerSkip(q)
    \/ \E q \in Concurrent : StreamerEmit(q)
    \/ \E q \in Concurrent : StreamerSend(q)
    \/ \E q \in Concurrent : StreamerInterrupt(q)
    \/ \E q \in Concurrent : StreamerExit(q)
    \/ \E q \in Concurrent : Receive(q)
    \/ \E q \in Concurrent : CancelQuery(q)
    \/ \E c \in Closers : CloseCas(c)
    \/ \E c \in Closers : CloseDupReturn(c)
    \/ \E c \in Closers : CloseBroadcast(c)
    \/ \E c \in Closers : CloseWait(c)
    \/ \E c \in Closers : CloseFlush(c)
    \/ \E c \in Closers : CloseDb(c)

Spec == Init /\ [][Next]_vars

\* the same Query calls with one Close call
FirstCloser == {1}

InitFair == Init

NextFair ==
    \/ \E q \in Concurrent :
          qPc[q] = "idle" /\ \E d \in FairDescriptors : QueryOpen(q, d)
    \/ \E q \in Concurrent : QueryRegister(q)
    \/ \E q \in Concurrent : StreamerSkip(q)
    \/ \E q \in Concurrent : StreamerEmit(q)
    \/ \E q \in Concurrent : StreamerSend(q)
    \/ \E q \in Concurrent : StreamerInterrupt(q)
    \/ \E q \in Concurrent : StreamerExit(q)
    \/ \E q \in Concurrent : Receive(q)
    \/ \E q \in Concurrent : CancelQuery(q)
    \/ \E c \in FirstCloser : CloseCas(c)
    \/ \E c \in FirstCloser : CloseBroadcast(c)
    \/ \E c \in FirstCloser : CloseWait(c)
    \/ \E c \in FirstCloser : CloseFlush(c)
    \/ \E c \in FirstCloser : CloseDb(c)

\* a goroutine that can run does run: the Query call, the streamer and the
\* Close call each take their next step; nothing obliges a caller to call
\* Close, nor a consumer to receive or to cancel
Fairness ==
    /\ \A q \in Concurrent :
        /\ WF_vars(QueryRegister(q))
        /\ WF_vars(StreamerSkip(q))
        /\ WF_vars(StreamerEmit(q))
        /\ WF_vars(StreamerSend(q))
        /\ WF_vars(StreamerInterrupt(q))
        /\ WF_vars(StreamerExit(q))
    /\ \A c \in FirstCloser :
        /\ WF_vars(CloseBroadcast(c))
        /\ WF_vars(CloseWait(c))
        /\ WF_vars(CloseFlush(c))
        /\ WF_vars(CloseDb(c))

FairSpec == InitFair /\ [][NextFair]_vars /\ Fairness

\* a query has run to its end and its consumer has received every event
Finished(q) ==
    \/ qPc[q] \in {"empty", "error"}
    \/ sPc[q] = "done" /\ recvd[q] = Len(out[q])

\* the same scan: prefix, filters and projection flags agree
SameScan(d, e) ==
    /\ d.prefix = e.prefix /\ d.filters = e.filters
    /\ d.keysOnly = e.keysOnly /\ d.returnSizes = e.returnSizes

\* the two queries of the pair run one after the other on an open handle,
\* each consumed to its end; the second repeats the scan of the first with
\* any orders, offset and limit
InitQuery ==
    /\ store \in Stores
    /\ InitDatastore
    /\ NoBounds

NextQuery ==
    \/ \E q \in Pair :
          /\ qPc[q] = "idle"
          /\ \A p \in 1..(q - 1) : Finished(p)
          /\ \E d \in IF q = 1 THEN Descriptors
                      ELSE {e \in Descriptors : SameScan(e, desc[1])} :
                QueryOpen(q, d)
    \/ \E q \in Pair : QueryRegister(q)
    \/ \E q \in Pair : StreamerSkip(q)
    \/ \E q \in Pair : StreamerEmit(q)
    \/ \E q \in Pair : StreamerSend(q)
    \/ \E q \in Pair : StreamerExit(q)
    \/ \E q \in Pair : Receive(q)

SpecQuery == InitQuery /\ [][NextQuery]_vars

\* one query at a time on an open handle, with every order list of up to
\* MaxOrders orders, consumed to its end
StoreTies ==
    {[key |-> KeyA1, value |-> <<121>>], [key |-> KeyA2, value |-> <<120>>],
     [key |-> KeyA3, value |-> <<121>>], [key |-> KeyB1, value |-> <<120>>]}

RECURSIVE OrderListsUpTo(_)
OrderListsUpTo(n) ==
    IF n = 0 THEN {<<>>}
    ELSE OrderListsUpTo(n - 1) \cup
         {Append(l, o) : l \in {x \in OrderListsUpTo(n - 1) : Len(x) = n - 1}, o \in AllOrders}

FallbackDescriptors ==
    [prefix : {<<>>, <<97, 47>>}, orders : OrderListsUpTo(MaxOrders),
     filters : FilterLists, offset : 0..MaxOffset, limit : 0..MaxLimit,
     keysOnly : BOOLEAN, returnSizes : {FALSE}]

InitFallback ==
    /\ store \in {StoreMixed, StoreTies}
    /\ InitDatastore
    /\ NoBounds

NextFallback ==
    \/ /\ qPc[1] = "idle"
       /\ \E d \in FallbackDescriptors : QueryOpen(1, d)
    \/ QueryRegister(1)
    \/ StreamerSkip(1)
    \/ StreamerEmit(1)
    \/ StreamerSend(1)
    \/ StreamerExit(1)
    \/ Receive(1)
    \/ FallbackApply(1)

SpecFallback == InitFallback /\ [][NextFallback]_vars

\* one query on an open handle whose cursor meets one engine error, consumed
\* to its end
FaultDescriptors ==
    [prefix : {<<>>, <<97, 47>>}, orders : {<<>>, <<OrderDesc>>},
     filters : FilterLists, offset : 0..MaxOffset, limit : 0..MaxLimit,
     keysOnly : BOOLEAN, returnSizes : BOOLEAN]

InitFault ==
    /\ store = StoreExample
    /\ InitDatastore
    /\ bPc = "computed" /\ bPrefix = <<>> /\ bKey = <<>>
    /\ bLower = <<>> /\ bUpper = <<>>
    /\ batch = NoBatch
    /\ \E k \in FaultKinds, p \in 1..Cardinality(store) :
          fault = [q \in Queries |-> [kind |-> k, pos |-> p, met |-> FALSE]]

NextFault ==
    \/ /\ qPc[1] = "idle"
       /\ \E d \in FaultDescriptors : QueryOpen(1, d)
    \/ QueryRegister(1)
    \/ StreamerSkip(1)
    \/ StreamerEmit(1)
    \/ StreamerSend(1)
    \/ StreamerSendError(1)
    \/ StreamerExit(1)
    \/ Receive(1)

SpecFault == InitFault /\ [][NextFault]_vars

\* one Batch on an open handle, with direct writes beside it
WriteKeys == {KeyA1, KeyB1}
WriteValues == {<<120>>, <<121>>}

InitBatch ==
    /\ store = StorePair
    /\ InitDatastore
    /\ NoBounds

NextBatch ==
    \/ NewBatch
    \/ \E k \in WriteKeys, v \in WriteValues : BatchPut(k, v)
    \/ \E k \in WriteKeys : BatchDelete(k)
    \/ \E ok \in BOOLEAN : BatchCommit(ok)
    \/ \E k \in WriteKeys, v \in WriteValues : Put(k, v)
    \/ \E k \in WriteKeys : Delete(k)

SpecBatch == InitBatch /\ [][NextBatch]_vars

\* the range bounds of every bounded prefix, tested against every bounded key
InitBounds ==
    /\ store = StoreExample
    /\ InitDatastore
    /\ bPc = "input"
    /\ bPrefix \in BytesUpTo(MaxPrefixLen)
    /\ bKey \in BytesUpTo(MaxKeyLen)
    /\ bLower = <<>> /\ bUpper = <<>>
    /\ Healthy

NextBounds == ComputeBounds

SpecBounds == InitBounds /\ [][NextBounds]_vars

(* ------------------------ definitions for the claims ------------------ *)

Running(q) == sPc[q] \notin {"none", "done"}

\* the Close call c returns in this step
Returns(c) == cPc[c] # "returned" /\ cPc'[c] = "returned"

Reverse(seq) == [i \in 1..Len(seq) |-> seq[Len(seq) + 1 - i]]

IsPrefixOf(a, b) == Len(a) <= Len(b) /\ SubSeq(b, 1, Len(a)) = a

\* the stream of q has ended by itself: an empty result, or a streamer that
\* left its loops without being interrupted and has exited
Completed(q) ==
    \/ qPc[q] = "empty"
    \/ sPc[q] = "done" /\ term[q] = "natural"

\* the entries delivered by q so far
Delivered(q) ==
    LET entries == SelectSeq(out[q], LAMBDA r : r.type = "entry")
    IN  [i \in 1..Len(entries) |-> entries[i].entry]

\* the entries of the store whose key begins with the scan prefix of d, in
\* the order of its cursor, restricted to those that pass all filters of d
PassingInOrder(d) ==
    LET ks == SortedKeys({r.key : r \in {x \in store : HasPrefix(x.key, ScanPrefix(d.prefix))}})
        ordered == IF d.orders = <<OrderDesc>> THEN Reverse(ks) ELSE ks
        entries == [i \in 1..Len(ordered) |-> CreateEntry(d, store, ordered[i])]
    IN  SelectSeq(entries, LAMBDA e : FilterFn(d.filters, e))

\* positions [k, k+n) of a sequence, n = 0 meaning up to its end
Slice(seq, k, n) ==
    SubSeq(seq, k + 1, IF n = 0 \/ k + n > Len(seq) THEN Len(seq) ELSE k + n)

AllMaxBytes(p) == \A i \in 1..Len(p) : p[i] = MaxByte

(* ------------------------------- claims ------------------------------- *)

\* C1: at the moment any Close call returns, no streamer is still running.
CloseReturnsAfterStreamers ==
    [][\A c \in Closers : Returns(c) => \A q \in Queries : ~Running(q)']_vars

\* C2: once Close has started to flush and close the engine handle, no
\* streamer advances, reads or releases its cursor.
NoCursorUseAfterTeardown ==
    [][\A q \in Queries : (flushes > 0 /\ Running(q)) => iter'[q] = iter[q]]_vars

\* C3: a Close call that lost the compare-and-swap returns no error, and
\* returns only after the original Close has flushed and closed the engine.
DuplicateCloseWaitsForOriginal ==
    \A c \in Closers :
        (cPc[c] = "returned" /\ ~cOrig[c]) =>
            (cRes[c] = "ok" /\ flushes = 1 /\ dbClosed)

\* C4: Close is idempotent: every Close call returns ok, the closing signal
\* is broadcast at most once and the engine is flushed and closed at most
\* once, exactly once when the winning call has returned, and the status
\* never returns to open.
CloseOnce ==
    /\ broadcasts <= 1 /\ flushes <= 1 /\ dbCloses <= 1
    /\ Cardinality({c \in Closers : cOrig[c]}) <= 1
    /\ \A c \in Closers : cPc[c] = "returned" => cRes[c] = "ok"
    /\ \A c \in Closers :
          (cPc[c] = "returned" /\ cOrig[c]) =>
              (broadcasts = 1 /\ flushes = 1 /\ dbCloses = 1 /\ dbClosed)
CancelNeverBlocksClose ==
    /\ \A q \in Queries :
          cancel[q] ~> (/\ sPc[q] = "done" /\ ~iter[q].open /\ iter[q].closes = 1
                        /\ wg = Cardinality({r \in Queries : Running(r)}))
    /\ \A c \in Closers : (cPc[c] # "idle") ~> (cPc[c] = "returned")

\* a streamer ended by its consumer's cancellation alone, cursor released
CancelWitness ==
    \E q \in Queries :
        /\ cancel[q] /\ status = 0
        /\ sPc[q] = "done" /\ term[q] = "interrupted"
        /\ ~iter[q].open /\ wg = 0

\* C6: a natively ordered Query that ends by itself has delivered exactly
\* the entries at positions [offset, offset+limit) of the filter-passing
\* entries in cursor order, and delivers them in that order while it runs.
OffsetLimitAfterFilter ==
    \A q \in Queries :
        /\ qPc[q] \in {"empty", "streaming"} =>
              IsPrefixOf(Delivered(q),
                         Slice(PassingInOrder(desc[q]), desc[q].offset, desc[q].limit))
        /\ Completed(q) =>
              /\ Len(Delivered(q)) = Len(out[q])
              /\ Delivered(q) = Slice(PassingInOrder(desc[q]), desc[q].offset, desc[q].limit)

\* offset 1 and limit 1 over "/a/" with the first entry failing the filter:
\* the third entry is the one delivered
OffsetLimitWitness ==
    \E q \in Queries :
        /\ Completed(q) /\ store = StoreMixed
        /\ desc[q].offset = 1 /\ desc[q].limit = 1
        /\ desc[q].filters = <<FilterHasValue>> /\ ~desc[q].keysOnly
        /\ desc[q].orders = <<>> /\ desc[q].prefix = <<97, 47>>
        /\ Len(out[q]) = 1 /\ out[q][1].entry.key = KeyA3

\* C7: for a prefix that is not made of 0xff bytes only, a key lies within
\* the computed bounds if and only if it begins with the prefix.
BoundsSelectPrefix ==
    (bPc = "computed" /\ ~AllMaxBytes(bPrefix)) =>
        (InRange(bKey, bLower, bUpper) <=> HasPrefix(bKey, bPrefix))

\* prefix 00 ff, bounds [00 ff, 01), and a key under the prefix
BoundsWitness ==
    /\ bPc = "computed" /\ bPrefix = <<0, MaxByte>> /\ bKey = <<0, MaxByte, 254>>
    /\ bUpper = <<1>> /\ InRange(bKey, bLower, bUpper)

\* C8: the upper bound is the prefix cut after its last byte that is not
\* 0xff, that byte incremented; it is the smallest byte string greater than
\* every key with the prefix; it is absent exactly when the prefix is empty
\* or made of 0xff bytes only, and then every key >= lower is in range.
UpperBoundMinimal ==
    bPc = "computed" =>
        LET above(u) == \A k \in BytesUpTo(MaxKeyLen) : HasPrefix(k, bPrefix) => LexLess(k, u)
        IN  /\ (bUpper = <<>>) <=> AllMaxBytes(bPrefix)
            /\ AllMaxBytes(bPrefix) => (InRange(bKey, bLower, bUpper) <=> LexLeq(bLower, bKey))
            /\ ~AllMaxBytes(bPrefix) =>
                  LET i == CHOOSE j \in 1..Len(bPrefix) :
                              /\ bPrefix[j] # MaxByte
                              /\ \A l \in (j + 1)..Len(bPrefix) : bPrefix[l] = MaxByte
                  IN  /\ bUpper = Append(SubSeq(bPrefix, 1, i - 1), bPrefix[i] + 1)
                      /\ above(bUpper)
                      /\ above(bKey) => LexLeq(bUpper, bKey)

\* prefix 00 ff has the upper bound 01, and the key 01 is a candidate bound
UpperBoundWitness ==
    /\ bPc = "computed" /\ bPrefix = <<0, MaxByte>> /\ bUpper = <<1>> /\ bKey = <<1>>

\* C9: with offset 0 and limit 0, the entries delivered for ByKeyDescending
\* are the reverse of those delivered for ByKeyAscending over the same scan.
DescendingIsReverse ==
    \A p \in Queries, q \in Queries :
        (/\ Completed(p) /\ Completed(q)
         /\ SameScan(desc[p], desc[q])
         /\ desc[p].offset = 0 /\ desc[p].limit = 0
         /\ desc[q].offset = 0 /\ desc[q].limit = 0
         /\ desc[p].orders = <<OrderAsc>> /\ desc[q].orders = <<OrderDesc>>)
        => out[q] = Reverse(out[p])

\* an ascending and a descending run over the three keys under "/a/"
DescendingWitness ==
    \E p \in Queries, q \in Queries :
        /\ Completed(p) /\ Completed(q) /\ SameScan(desc[p], desc[q])
        /\ desc[p].offset = 0 /\ desc[p].limit = 0
        /\ desc[q].offset = 0 /\ desc[q].limit = 0
        /\ desc[p].orders = <<OrderAsc>> /\ desc[q].orders = <<OrderDesc>>
        /\ Len(out[p]) = 3 /\ out[q][1].entry.key = KeyA3

\* C10: a Query without orders and a Query with the single order
\* ByKeyAscending deliver the same sequence for the same descriptor.
NoOrderIsAscending ==
    \A p \in Queries, q \in Queries :
        (/\ Completed(p) /\ Completed(q)
         /\ SameScan(desc[p], desc[q])
         /\ desc[p].offset = desc[q].offset /\ desc[p].limit = desc[q].limit
         /\ desc[p].orders = <<>> /\ desc[q].orders = <<OrderAsc>>)
        => out[p] = out[q]

\* both runs skipped one entry and delivered the two that follow
NoOrderWitness ==
    \E p \in Queries, q \in Queries :
        /\ Completed(p) /\ Completed(q) /\ SameScan(desc[p], desc[q])
        /\ desc[p].offset = 1 /\ desc[q].offset = 1
        /\ desc[p].limit = desc[q].limit
        /\ desc[p].orders = <<>> /\ desc[q].orders = <<OrderAsc>>
        /\ Len(out[p]) = 2 /\ Len(out[q]) = 2

(* ------------------------ claims on the planner ----------------------- *)

\* the orders of a list, as a set
OrdersOf(orders) == {orders[i] : i \in 1..Len(orders)}
KeyOrderPositions(orders) == {i \in 1..Len(orders) : orders[i] \in KeyOrders}

\* C11: a Query whose order list holds both ByKeyAscending and
\* ByKeyDescending, wherever they stand, returns the planning error, starts
\* no streamer and delivers no event.
BothKeyOrdersRejected ==
    \A q \in Queries :
        (qPc[q] # "idle" /\ KeyOrders \subseteq OrdersOf(fb[q].asked.orders))
            => /\ qPc[q] = "error"
               /\ sPc[q] = "none" /\ wg = 0
               /\ out[q] = <<>> /\ fb[q].state = "none"

BothKeyOrdersWitness ==
    /\ qPc[1] = "error"
    /\ fb[1].asked.orders = <<OrderValue, OrderAsc, OrderDesc>>

\* C12: a Query whose order list holds two or more orders, at most one of
\* them a key order at whatever position, returns no planning error and runs
\* the fallback with that key order, if any, as the base order.
OneKeyOrderFallsBack ==
    \A q \in Queries :
        LET orders == fb[q].asked.orders
            at == KeyOrderPositions(orders)
        IN  (qPc[q] # "idle" /\ Len(orders) >= 2 /\ Cardinality(at) <= 1)
                => /\ qPc[q] # "error"
                   /\ fb[q].state # "none"
                   /\ desc[q].orders = IF at = {} THEN <<>>
                                       ELSE <<orders[CHOOSE i \in at : TRUE]>>

\* the first order that tells two entries apart, 0 when none does
RECURSIVE CompareAll(_, _, _, _)
CompareAll(orders, i, a, b) ==
    IF i > Len(orders) THEN 0
    ELSE IF Compare(orders[i], a, b) # 0 THEN Compare(orders[i], a, b)
    ELSE CompareAll(orders, i + 1, a, b)

\* e inserted into a sorted sequence behind every entry not greater than it
InsertStable(orders, sorted, e) ==
    LET n == Cardinality({i \in 1..Len(sorted) : CompareAll(orders, 1, sorted[i], e) <= 0})
    IN  SubSeq(sorted, 1, n) \o <<e>> \o SubSeq(sorted, n + 1, Len(sorted))

\* the stable sort of a sequence by an order list
RECURSIVE StableSort(_, _)
StableSort(orders, entries) ==
    IF Len(entries) = 0 THEN <<>>
    ELSE InsertStable(orders, StableSort(orders, SubSeq(entries, 1, Len(entries) - 1)),
                      entries[Len(entries)])

\* the reference result of a query: the entries under the prefix that pass
\* the filters, stably sorted by the whole order list, without the first
\* "offset" entries, cut to "limit" entries
Reference(d) ==
    Slice(StableSort(d.orders, PassingInOrder([d EXCEPT !.orders = <<>>])),
          d.offset, d.limit)

\* C13: the result of a Query evaluated by the fallback is the reference
\* result of the query asked.
FallbackMatchesReference ==
    \A q \in Queries :
        fb[q].state = "applied" => fb[q].result = Reference(fb[q].asked)

FallbackWitness ==
    /\ fb[1].state = "applied"
    /\ fb[1].asked.orders = <<OrderValue, OrderDesc>>
    /\ fb[1].asked.offset = 1
    /\ fb[1].asked.filters # <<>>
    /\ Len(fb[1].result) >= 2
    /\ fb[1].result[1].value = fb[1].result[2].value
    /\ LexLess(fb[1].result[2].key, fb[1].result[1].key)

\* C20: the cursor a Query call opened is released on every return path:
\* none is open once the call has returned the planning error, the empty
\* result or the fallback result, nor once the streamer has ended.
QueryReleasesCursor ==
    \A q \in Queries :
        /\ qPc[q] \in {"error", "empty"} => ~iter[q].open
        /\ sPc[q] = "done" => ~iter[q].open
        /\ fb[q].state = "applied" => ~fb[q].outer.open /\ ~iter[q].open

(* ----------------------- claims on engine errors ---------------------- *)

\* C16: an engine error met while the streamer advances, be it an error of
\* the cursor or of the read of a value, while skipping or while emitting,
\* is delivered as an Error event, and that event is the last of the stream.
EngineErrorDeliveredLast ==
    \A q \in Queries :
        /\ (fault[q].met /\ sPc[q] = "done")
               => \E i \in 1..Len(out[q]) : out[q][i].type = "error"
        /\ \A i \in 1..Len(out[q]) : out[q][i].type = "error" => i = Len(out[q])

(* ------------------------ claims on the streamer ---------------------- *)

\* C17: on every way out (end of the data, limit reached, cancellation,
\* shutdown) the streamer releases its cursor exactly once and drops its
\* registration exactly once, and a released cursor is never used again.
CursorReleasedOnce ==
    [][\A q \in Queries :
          /\ iter'[q].closes <= 1
          /\ sPc'[q] = "done" => iter'[q].closes = 1 /\ ~iter'[q].open
          /\ iter[q].closes = 1 => iter'[q] = iter[q]
          /\ wg' = Cardinality({r \in Queries : Running(r)'})]_vars

\* a streamer that stopped at its limit with data left, cursor released
CursorReleasedWitness ==
    \E q \in Queries :
        /\ sPc[q] = "done" /\ term[q] = "natural"
        /\ desc[q].limit = 1 /\ sent[q] = 1 /\ Valid(iter[q])
        /\ iter[q].closes = 1 /\ ~iter[q].open /\ wg = 0

CloseRequested == [type |-> "error", entry |-> "close requested"]

\* C18: a streamer whose delivery is pre-empted by shutdown or cancellation
\* makes at most one attempt, without blocking, to deliver the closure
\* error and then terminates: it delivers nothing afterwards, does not
\* advance its cursor, and does not wait for its consumer again.
InterruptedStreamerStops ==
    /\ [][\A q \in Queries :
             /\ (term[q] # "interrupted" /\ term'[q] = "interrupted")
                    => /\ out'[q] \in {out[q], Append(out[q], CloseRequested)}
                       /\ iter'[q] = iter[q]
             /\ term[q] = "interrupted"
                    => /\ out'[q] = out[q]
                       /\ iter'[q].pos = iter[q].pos
                       /\ sPc'[q] \in {"exit", "done"}]_vars
    /\ \A q \in Queries : (term[q] = "interrupted") ~> (sPc[q] = "done")

\* a streamer ended by an interruption whose closure error was delivered
\* behind an entry
InterruptedWitness ==
    \E q \in Queries :
        /\ sPc[q] = "done" /\ term[q] = "interrupted"
        /\ Len(out[q]) >= 2 /\ out[q][Len(out[q])] = CloseRequested
        /\ out[q][Len(out[q]) - 1].type = "entry"

\* C19: when Close is called while streamers are blocked delivering to
\* consumers that neither read nor cancel, every such streamer observes the
\* closing signal and terminates, and Close returns.
ShutdownUnblocksStreamers ==
    /\ \A q \in Queries :
          (closing /\ sPc[q] = "send" /\ ~HasRoom(q) /\ ~cancel[q]) ~> (sPc[q] = "done")
    /\ \A c \in Closers :
          (closing /\ cPc[c] \notin {"idle", "returned"}) ~> (cPc[c] = "returned")

\* Close has returned after a streamer whose consumer had stopped reading
\* and never cancelled was ended by the closing signal
ShutdownWitness ==
    \E q \in Queries, c \in Closers :
        /\ sPc[q] = "done" /\ term[q] = "interrupted" /\ ~cancel[q]
        /\ recvd[q] < Len(out[q])
        /\ out[q][Len(out[q])].type = "entry"
        /\ cPc[c] = "returned"

(* ------------------------- claims on the Batch ------------------------ *)

\* the calls made on the Batch for key k, in the order they were made
CallsOn(k) == SelectSeq(batch.calls, LAMBDA c : c.key = k)

\* the step is a successful Commit
Commits == batch.state = "open" /\ batch'.state = "committed"

\* C14: within one committed Batch the last operation on a key wins: Put
\* then Delete leaves the key absent, Delete then Put(K, v) leaves it
\* present with v.
LastOperationWins ==
    [][Commits =>
          \A k \in WriteKeys :
              LET calls == CallsOn(k)
              IN  Len(calls) >= 2 =>
                      IF calls[Len(calls)].op = "delete" THEN ~Has(store', k)
                      ELSE Get(store', k) = [found |-> TRUE, value |-> calls[Len(calls)].value]]_vars

\* a committed Batch that held Put then Delete of a stored key, now absent
LastOperationWitness ==
    /\ batch.state = "committed"
    /\ batch.calls = <<[op |-> "put", key |-> KeyA1, value |-> <<121>>],
                       [op |-> "delete", key |-> KeyA1, value |-> <<>>]>>
    /\ ~Has(store, KeyA1) /\ Has(store, KeyA2)

\* what the calls made on a Batch for one key leave of its former state
RECURSIVE Effect(_, _)
Effect(calls, former) ==
    IF Len(calls) = 0 THEN former
    ELSE Effect(Tail(calls),
                IF Head(calls).op = "put" THEN [found |-> TRUE, value |-> Head(calls).value]
                ELSE [found |-> FALSE, value |-> <<>>])

AllKeys == {KeyA1, KeyA2, KeyA3, KeyAB1, KeyB1}

\* C15: a Batch is all or nothing: no operation put into it is visible to
\* Get, Has or Query before Commit; after a successful Commit all of them
\* are; after a failed Commit the contents are those before the Commit.
BatchAllOrNothing ==
    [][/\ (batch.state = "open" /\ batch'.state = "open" /\ batch' # batch)
              => /\ \A k \in AllKeys : Get(store', k) = Get(store, k) /\ Has(store', k) = Has(store, k)
                 /\ NewIter(store', <<>>).keys = NewIter(store, <<>>).keys
       /\ Commits
              => \A k \in AllKeys : Get(store', k) = Effect(CallsOn(k), Get(store, k))
       /\ (batch.state = "open" /\ batch'.state = "failed")
              => store' = store]_vars

\* a committed Batch whose Put of a new key and Delete of a stored key are
\* both visible
BatchWitness ==
    /\ batch.state = "committed"
    /\ Len(batch.calls) = 2
    /\ \E i \in 1..2 : batch.calls[i] = [op |-> "put", key |-> KeyB1, value |-> <<120>>]
    /\ \E i \in 1..2 : batch.calls[i].op = "delete" /\ batch.calls[i].key = KeyA1
    /\ Get(store, KeyB1) = [found |-> TRUE, value |-> <<120>>]
    /\ ~Has(store, KeyA1)

====
